---- MODULE Spec2Model ----
(***************************************************************************)
(* Verification model of two parts of ZRTPCPP:                             *)
(*   - zrtp/crypto/botan/skein384.cpp: the Skein-384 one-shot functions    *)
(*     and the hash context API built on Botan::HashFunction;              *)
(*   - src/libzrtpcpp/ZrtpUserCallback.h: the user callback interface and  *)
(*     its proxy methods onto ost::ZrtpQueue.                              *)
(* Botan's hash object and the ZrtpQueue protocol engine are not part of   *)
(* these two files; they are modelled from their documented contract.      *)
(***************************************************************************)
EXTENDS Integers, Sequences, FiniteSets, TLC

\* ------------------------------------------------------------------ bounds
MaxByte == 1
MaxLen == 1
MaxSeg == 2
MaxAbsorb == 2

\* ------------------------------------------------------- program constants
SHA384_DIGEST_SIZE == 48
HashMod == 65536
NULL == 0
NoHash == -1

Bytes == 0..MaxByte
\* The model holds one hashCtx object; contexts share no state.
Handles == {1}

RECURSIVE SeqsUpTo(_, _)
SeqsUpTo(S, n) ==
    IF n = 0 THEN {<<>>}
    ELSE LET R == SeqsUpTo(S, n - 1)
         IN  R \cup {Append(r, x) : r \in {q \in R : Len(q) = n - 1}, x \in S}

Buffers == SeqsUpTo(Bytes, MaxLen)

Min(a, b) == IF a < b THEN a ELSE b

Take(s, n) == SubSeq(s, 1, Min(n, Len(s)))

RECURSIVE Concat(_)
Concat(ss) == IF ss = <<>> THEN <<>> ELSE Head(ss) \o Concat(Tail(ss))

RECURSIVE SumLen(_)
SumLen(ss) == IF ss = <<>> THEN 0 ELSE Len(Head(ss)) + SumLen(Tail(ss))

\* ------------------------------------------ Botan::HashFunction (abstract)
\* The hash object is a chaining value: update folds the bytes into it in
\* order, final applies the output transformation and resets the object,
\* clear resets it.
Radix == MaxByte + 3

HashCreate == 0

RECURSIVE HashUpdate(_, _)
HashUpdate(st, bytes) ==
    IF bytes = <<>> THEN st
    ELSE HashUpdate((st * Radix + Head(bytes) + 2) % HashMod, Tail(bytes))

HashFinal(st) == (st * Radix + 1) % HashMod

HashClear(st) == HashCreate

\* ----------------------------------------------------------------- state
VARIABLES
    heap,        \* hashCtx objects: handle -> [state, hash]
    digestOut,   \* the RetainedSecArray / digest buffer passed to the last call
    ret,         \* handle returned by the last create / initialize
    op,          \* the last API call and what it did
    crashed,     \* the process was terminated by undefined behaviour
    hist,        \* per context: bytes handed to update since the last reset
    pc, inSegs, d, \* equivalence scenario: runs done, input segments, digests
    sess,        \* per endpoint: the ZRTP Session
    store,       \* per endpoint: the RetainedSecret kept for the current peer
    conf,        \* per endpoint: Hello hash and offered algorithms
    net,         \* ZRTP messages in flight
    notes,       \* per endpoint: ZrtpUserCallback notifications received
    ev,          \* the last call the host made on a ZrtpUserCallback
    track,       \* per endpoint: what the host and the peer have done so far
    tampers      \* messages altered in flight so far

hvars == <<heap, digestOut, ret, op, crashed, hist>>
evars == <<pc, inSegs, d>>
zvars == <<sess, store, conf, net, notes, ev, track, tampers>>
vars == <<heap, digestOut, ret, op, crashed, hist, pc, inSegs, d,
          sess, store, conf, net, notes, ev, track, tampers>>

FreeCtx == [state |-> "free", hash |-> NoHash]
EmptyHeap == [c \in Handles |-> FreeCtx]
NoDigest == [data |-> 0, size |-> 0]
NoHist == [pending |-> <<>>, inited |-> "no"]
NoOp == [name |-> "none", h |-> NULL, ub |-> "none", data |-> <<>>, inited |-> "no",
         idx |-> 0, lenSize |-> 0]

Live(hp) == {c \in Handles : hp[c].state = "live"}
Free(hp) == {c \in Handles : hp[c].state # "live"}

\* -------------------------------------------------------- skein384.cpp
\* void skein384(const uint8_t *data, uint64_t dataLength, uint8_t *digest)
skein384(data, dataLength) ==
    LET hash == HashCreate
    IN  HashFinal(HashUpdate(hash, Take(data, dataLength)))

\* The value the loop reads at dataLength[i]; an index past the end of the
\* vector reads whatever the build finds there (garbage[i]).
ReadLen(dataLength, i, garbage) ==
    IF i <= Len(dataLength) THEN dataLength[i] ELSE garbage[i]

RECURSIVE UpdateLoop(_, _, _, _, _)
UpdateLoop(st, data, dataLength, i, garbage) ==
    IF i > Len(data) THEN st
    ELSE UpdateLoop(HashUpdate(st, Take(data[i], ReadLen(dataLength, i, garbage))),
                    data, dataLength, i + 1, garbage)

\* The bytes the loop hands to update, in order.
RECURSIVE LoopBytes(_, _, _, _)
LoopBytes(data, dataLength, i, garbage) ==
    IF i > Len(data) THEN <<>>
    ELSE Take(data[i], ReadLen(dataLength, i, garbage))
         \o LoopBytes(data, dataLength, i + 1, garbage)

\* void skein384(const std::vector<const uint8_t*>&, const std::vector<uint64_t>&, uint8_t*)
skein384Vec(data, dataLength, garbage) ==
    LET hash == HashCreate
    IN  HashFinal(UpdateLoop(hash, data, dataLength, 1, garbage))

\* void* createSkein384Context()
createSkein384Context(hp) ==
    LET c == CHOOSE x \in Free(hp) : \A y \in Free(hp) : x <= y
    IN  [heap |-> [hp EXCEPT ![c] = [state |-> "live", hash |-> HashCreate]],
         ret |-> c]

\* closeSkein384Context without the delete of the context.
closeSkein384Context_NoDelete(hp, dg, ctx) ==
    [heap |-> [hp EXCEPT ![ctx].hash = HashClear(@)],
     digestOut |-> [data |-> HashFinal(hp[ctx].hash), size |-> SHA384_DIGEST_SIZE]]

\* void closeSkein384Context(void* ctx, RetainedSecArray& digestOut), ctx != nullptr
closeSkein384Context(hp, dg, ctx) ==
    [heap |-> [hp EXCEPT ![ctx] = [state |-> "released", hash |-> NoHash]],
     digestOut |-> [data |-> HashFinal(hp[ctx].hash), size |-> SHA384_DIGEST_SIZE]]

\* initializeSkein384Context without the clear() of an existing hash object.
initializeSkein384Context_NoClear(hp, ctx) ==
    IF ctx # NULL
    THEN [hp EXCEPT ![ctx].hash = IF @ = NoHash THEN HashCreate ELSE @]
    ELSE hp

\* void* initializeSkein384Context(void* ctx)
initializeSkein384Context(hp, ctx) ==
    IF ctx # NULL
    THEN [hp EXCEPT ![ctx].hash = IF @ = NoHash THEN HashCreate ELSE HashClear(@)]
    ELSE hp

\* void finalizeSkein384Context(void* ctx, RetainedSecArray& digestOut), ctx != nullptr
finalizeSkein384Context(hp, dg, ctx) ==
    [heap |-> [hp EXCEPT ![ctx].hash = HashClear(@)],
     digestOut |-> [data |-> HashFinal(hp[ctx].hash), size |-> SHA384_DIGEST_SIZE]]

\* skein384Ctx updating a new hash object instead of the context's.
skein384Ctx_NewHash(hp, ctx, data, dataLength) ==
    [hp EXCEPT ![ctx].hash = HashUpdate(HashCreate, Take(data, dataLength))]

\* void skein384Ctx(void* ctx, const uint8_t* data, uint64_t dataLength), ctx != nullptr
skein384Ctx(hp, ctx, data, dataLength) ==
    [hp EXCEPT ![ctx].hash = HashUpdate(@, Take(data, dataLength))]

\* The multi-segment skein384Ctx with its loop starting at the second segment.
skein384CtxVec_FromSecond(hp, ctx, data, dataLength, garbage) ==
    [hp EXCEPT ![ctx].hash = UpdateLoop(@, data, dataLength, 2, garbage)]

\* void skein384Ctx(void* ctx, const std::vector<...>& data, const std::vector<uint64_t>& dataLength)
skein384CtxVec(hp, ctx, data, dataLength, garbage) ==
    [hp EXCEPT ![ctx].hash = UpdateLoop(@, data, dataLength, 1, garbage)]


\* ============================================================ ZRTP session
\* Two endpoints, each with a ZrtpUserCallback in front of its ZrtpQueue.
TamperBudget == 1

Ends == {1, 2}
Peer(e) == 3 - e

NoSession == [state |-> "Idle", started |-> FALSE, role |-> "none", secure |-> FALSE,
              peerH |-> 0, secret |-> 0, sas |-> 0, keys |-> 0,
              goClear |-> "none", err |-> "none"]
NoEvent == [name |-> "none", e |-> 0, queueRet |-> <<>>, userRet |-> <<>>, kind |-> "none"]
NoTrack == [userReq |-> FALSE, userOk |-> FALSE, gotGoClear |-> FALSE, badConfirm |-> FALSE]

ZrtpIdle ==
    /\ sess = [e \in Ends |-> NoSession]
    /\ store = [e \in Ends |-> [secret |-> 0, verified |-> FALSE]]
    /\ conf = [e \in Ends |-> [hash |-> 0, algos |-> {}]]
    /\ net = {}
    /\ notes = [e \in Ends |-> {}]
    /\ ev = NoEvent
    /\ track = [e \in Ends |-> NoTrack]
    /\ tampers = 0

\* ---- crypto provider, as far as the handshake uses it
RECURSIVE Pow(_, _)
Pow(b, n) == IF n = 0 THEN 1 ELSE b * Pow(b, n - 1)

DhPrivate(e) == e + 1
DhPublic(e) == Pow(2, DhPrivate(e)) % 11
DhShared(e, pv) == Pow(pv, DhPrivate(e)) % 11
DhValid(pv) == pv > 1
Chain(x) == (2 * x + 1) % 64
Mac(key, payload) == (key + 3 * payload + 1) % 4
SasOf(s0) == (s0 % 4) + 1
KeysOf(s0) == 3 * s0 + 1

HexDigits == <<"0", "1", "2", "3", "4", "5", "6", "7",
               "8", "9", "a", "b", "c", "d", "e", "f">>

RECURSIVE Hex(_)
Hex(n) == IF n < 16 THEN <<HexDigits[n + 1]>>
          ELSE Hex(n \div 16) \o <<HexDigits[(n % 16) + 1]>>

\* sent keeps the MAC the sender computed (not a wire field).
Msg(k, to, val, mac) ==
    [kind |-> k, to |-> to, val |-> val, algos |-> {}, mac |-> mac, sent |-> mac]

Failed(e, why) ==
    /\ sess' = [sess EXCEPT ![e].state = "Failed", ![e].secure = FALSE, ![e].err = why]
    /\ notes' = [notes EXCEPT ![e] = @ \cup {"zrtpNegotiationFailed"}]

\* ---- the protocol engine behind ZrtpQueue
startDiscovery(e) ==
    /\ ~crashed
    /\ sess[e].state = "Idle" /\ ~sess[e].started
    /\ sess' = [sess EXCEPT ![e].state = "DiscoverySent", ![e].started = TRUE]
    /\ net' = net \cup {[Msg("Hello", Peer(e), conf[e].hash, 0) EXCEPT !.algos = conf[e].algos]}
    /\ ev' = NoEvent
    /\ UNCHANGED <<store, conf, notes, track, tampers>>

helloTimeout(e) ==
    /\ ~crashed
    /\ sess[e].state = "DiscoverySent"
    /\ sess' = [sess EXCEPT ![e].state = "Failed", ![e].err = "PeerNotSupported"]
    /\ notes' = [notes EXCEPT ![e] = @ \cup {"zrtpNotSuppOther"}]
    /\ ev' = NoEvent
    /\ UNCHANGED <<store, conf, net, track, tampers>>

processHello(e, m) ==
    /\ ~crashed
    /\ m.kind = "Hello" /\ m.to = e /\ sess[e].state = "DiscoverySent"
    /\ ev' = NoEvent
    /\ IF m.algos \cap conf[e].algos = {}
       THEN /\ Failed(e, "UnsupportedVersion")
            /\ net' = net \ {m}
       ELSE /\ sess' = [sess EXCEPT ![e].state = "Committed", ![e].peerH = m.val]
            /\ net' = (net \ {m}) \cup {Msg("Commit", Peer(e), Chain(conf[e].hash), 0)}
            /\ UNCHANGED notes
    /\ UNCHANGED <<store, conf, track, tampers>>

processCommit(e, m) ==
    /\ ~crashed
    /\ m.kind = "Commit" /\ m.to = e /\ sess[e].state = "Committed"
    /\ ev' = NoEvent
    /\ IF m.val # Chain(sess[e].peerH)
       THEN /\ Failed(e, "CommitMismatch")
            /\ net' = net \ {m}
       ELSE LET responder == Chain(conf[e].hash) < m.val
            IN  /\ sess' = [sess EXCEPT ![e].state = "KeyAgreeSent",
                                        ![e].role = IF responder THEN "responder"
                                                    ELSE "initiator"]
                /\ net' = (net \ {m}) \cup
                          (IF responder THEN {Msg("DHPart1", Peer(e), DhPublic(e), 0)}
                           ELSE {})
                /\ UNCHANGED notes
    /\ UNCHANGED <<store, conf, track, tampers>>

processDHPart(e, m) ==
    /\ ~crashed
    /\ m.to = e /\ sess[e].state = "KeyAgreeSent"
    /\ m.kind = IF sess[e].role = "initiator" THEN "DHPart1" ELSE "DHPart2"
    /\ ev' = NoEvent
    /\ IF ~DhValid(m.val)
       THEN /\ Failed(e, "KeyAgreementFailed")
            /\ net' = net \ {m}
       ELSE LET s0 == DhShared(e, m.val) + store[e].secret
                payload == IF store[e].verified THEN 1 ELSE 0
            IN  /\ sess' = [sess EXCEPT ![e].state = "Confirmed", ![e].secret = s0,
                                        ![e].sas = SasOf(s0)]
                /\ notes' = [notes EXCEPT ![e] = @ \cup {"showSAS"}]
                /\ net' = (net \ {m}) \cup
                          {IF sess[e].role = "initiator"
                           THEN Msg("DHPart2", Peer(e), DhPublic(e), 0)
                           ELSE Msg("Confirm1", Peer(e), payload, Mac(s0, payload))}
    /\ UNCHANGED <<store, conf, track, tampers>>

\* processConfirm accepting a Confirm without validating its MAC.
processConfirm_NoMacCheck(e, m) ==
    /\ ~crashed
    /\ m.to = e /\ sess[e].state = "Confirmed"
    /\ m.kind = IF sess[e].role = "initiator" THEN "Confirm1" ELSE "Confirm2"
    /\ ev' = NoEvent
    /\ IF FALSE
       THEN /\ Failed(e, "ConfirmAuthFailed")
            /\ net' = net \ {m}
            /\ UNCHANGED store
       ELSE LET payload == IF store[e].verified THEN 1 ELSE 0
            IN  /\ sess' = [sess EXCEPT ![e].state = "SecureOn", ![e].secure = TRUE,
                                        ![e].keys = KeysOf(sess[e].secret)]
                /\ notes' = [notes EXCEPT ![e] = @ \cup {"secureOn"}]
                /\ store' = [store EXCEPT ![e].secret = (sess[e].secret % 7) + 1]
                /\ net' = (net \ {m}) \cup
                          (IF sess[e].role = "initiator"
                           THEN {Msg("Confirm2", Peer(e), payload,
                                     Mac(sess[e].secret, payload))}
                           ELSE {})
    /\ track' = [track EXCEPT ![e].badConfirm = @ \/ (m.mac # m.sent)]
    /\ UNCHANGED <<conf, tampers>>

processConfirm(e, m) ==
    /\ ~crashed
    /\ m.to = e /\ sess[e].state = "Confirmed"
    /\ m.kind = IF sess[e].role = "initiator" THEN "Confirm1" ELSE "Confirm2"
    /\ ev' = NoEvent
    /\ IF m.mac # Mac(sess[e].secret, m.val)
       THEN /\ Failed(e, "ConfirmAuthFailed")
            /\ net' = net \ {m}
            /\ UNCHANGED store
       ELSE LET payload == IF store[e].verified THEN 1 ELSE 0
            IN  /\ sess' = [sess EXCEPT ![e].state = "SecureOn", ![e].secure = TRUE,
                                        ![e].keys = KeysOf(sess[e].secret)]
                /\ notes' = [notes EXCEPT ![e] = @ \cup {"secureOn"}]
                /\ store' = [store EXCEPT ![e].secret = (sess[e].secret % 7) + 1]
                /\ net' = (net \ {m}) \cup
                          (IF sess[e].role = "initiator"
                           THEN {Msg("Confirm2", Peer(e), payload,
                                     Mac(sess[e].secret, payload))}
                           ELSE {})
    /\ track' = [track EXCEPT ![e].badConfirm = @ \/ (m.mac # m.sent)]
    /\ UNCHANGED <<conf, tampers>>

processGoClear(e, m) ==
    /\ ~crashed
    /\ m.kind = "GoClear" /\ m.to = e
    /\ sess[e].state \in {"SecureOn", "GoClearRequested"}
    /\ ev' = NoEvent
    /\ IF sess[e].state = "SecureOn"
       THEN /\ sess' = [sess EXCEPT ![e].state = "GoClearRequested",
                                    ![e].goClear = "received"]
            /\ notes' = [notes EXCEPT ![e] = @ \cup {"confirmGoClear"}]
            /\ track' = [track EXCEPT ![e].gotGoClear = TRUE, ![e].userOk = FALSE]
            /\ net' = net \ {m}
       ELSE /\ net' = (net \ {m}) \cup {Msg("ClearAck", Peer(e), 0, 0)}
            /\ UNCHANGED <<sess, notes, track>>
    /\ UNCHANGED <<store, conf, tampers>>

processClearAck(e, m) ==
    /\ ~crashed
    /\ m.kind = "ClearAck" /\ m.to = e
    /\ sess[e].state = "GoClearRequested" /\ sess[e].goClear = "requested"
    /\ sess' = [sess EXCEPT ![e].state = "Idle", ![e].goClear = "done"]
    /\ net' = net \ {m}
    /\ ev' = NoEvent
    /\ UNCHANGED <<store, conf, notes, track, tampers>>

\* A message altered on the path: Commit hash, DH public value or Confirm MAC.
Tamper(m) ==
    /\ ~crashed
    /\ tampers < TamperBudget
    /\ m.kind \in {"Commit", "DHPart1", "DHPart2", "Confirm1", "Confirm2"}
    /\ \E x \in 0..3 :
          LET m2 == CASE m.kind = "Commit" -> [m EXCEPT !.val = (m.val + 1 + x) % 64]
                      [] m.kind \in {"DHPart1", "DHPart2"} -> [m EXCEPT !.val = x % 2]
                      [] OTHER -> [m EXCEPT !.mac = x]
          IN  /\ m2 # m
              /\ net' = (net \ {m}) \cup {m2}
    /\ tampers' = tampers + 1
    /\ ev' = NoEvent
    /\ UNCHANGED <<sess, store, conf, notes, track>>

\* ---- ost::ZrtpQueue methods the callback class forwards to
ZrtpQueue_SASVerified(e) ==
    /\ store' = [store EXCEPT ![e].verified = TRUE]
    /\ UNCHANGED <<sess, net, notes>>

ZrtpQueue_resetSASVerified(e) ==
    /\ store' = [store EXCEPT ![e].verified = FALSE]
    /\ UNCHANGED <<sess, net, notes>>

ZrtpQueue_goClearOk(e) ==
    IF sess[e].state = "GoClearRequested" /\ sess[e].goClear = "received"
    THEN /\ sess' = [sess EXCEPT ![e].state = "Idle", ![e].secure = FALSE,
                                 ![e].goClear = "done"]
         /\ net' = net \cup {Msg("ClearAck", Peer(e), 0, 0)}
         /\ notes' = [notes EXCEPT ![e] = @ \cup {"secureOff"}]
         /\ UNCHANGED store
    ELSE UNCHANGED <<sess, store, net, notes>>

ZrtpQueue_requestGoClear(e) ==
    IF sess[e].state = "SecureOn"
    THEN /\ sess' = [sess EXCEPT ![e].state = "GoClearRequested", ![e].secure = FALSE,
                                 ![e].goClear = "requested"]
         /\ net' = net \cup {Msg("GoClear", Peer(e), 0, 0)}
         /\ notes' = [notes EXCEPT ![e] = @ \cup {"secureOff"}]
         /\ UNCHANGED store
    ELSE UNCHANGED <<sess, store, net, notes>>

ZrtpQueue_getHelloHash(e) ==
    IF sess[e].started THEN Hex(conf[e].hash) ELSE <<"0">>

ZrtpQueue_getSasData(e) ==
    IF sess[e].started THEN <<"s">> \o Hex(sess[e].sas) ELSE <<"0">>

\* ---- ZrtpUserCallback.h: the proxy methods
Called(n, e) == [NoEvent EXCEPT !.name = n, !.e = e]

\* SASVerified forwarding to the wrong ZrtpQueue method.
SASVerified_CallsReset(e) ==
    /\ ~crashed
    /\ ZrtpQueue_resetSASVerified(e)
    /\ ev' = Called("SASVerified", e)
    /\ UNCHANGED <<conf, track, tampers>>

\* virtual void SASVerified() { zrtpQueue->SASVerified(); }
SASVerified(e) ==
    /\ ~crashed
    /\ ZrtpQueue_SASVerified(e)
    /\ ev' = Called("SASVerified", e)
    /\ UNCHANGED <<conf, track, tampers>>

\* virtual void resetSASVerified() { zrtpQueue->resetSASVerified(); }
resetSASVerified(e) ==
    /\ ~crashed
    /\ ZrtpQueue_resetSASVerified(e)
    /\ ev' = Called("resetSASVerified", e)
    /\ UNCHANGED <<conf, track, tampers>>

\* virtual void goClearOk() { zrtpQueue->goClearOk(); }
goClearOk(e) ==
    /\ ~crashed
    /\ ZrtpQueue_goClearOk(e)
    /\ ev' = Called("goClearOk", e)
    /\ track' = [track EXCEPT ![e].userOk = @ \/ track[e].gotGoClear]
    /\ UNCHANGED <<conf, tampers>>

\* requestGoClear forwarding to the wrong ZrtpQueue method.
requestGoClear_CallsGoClearOk(e) ==
    /\ ~crashed
    /\ sess[e].state = "SecureOn"
    /\ ZrtpQueue_goClearOk(e)
    /\ ev' = Called("requestGoClear", e)
    /\ track' = [track EXCEPT ![e].userReq = TRUE]
    /\ UNCHANGED <<conf, tampers>>

\* virtual void requestGoClear() { zrtpQueue->requestGoClear(); }
requestGoClear(e) ==
    /\ ~crashed
    /\ sess[e].state = "SecureOn"
    /\ ZrtpQueue_requestGoClear(e)
    /\ ev' = Called("requestGoClear", e)
    /\ track' = [track EXCEPT ![e].userReq = TRUE]
    /\ UNCHANGED <<conf, tampers>>

\* What a std::string function hands back when it flows off its end
\* without a return statement.
Indeterminate == {<<>>, <<"0">>} \cup {Hex(conf[e].hash) : e \in Ends}

\* virtual std::string getHelloHash() { zrtpQueue->getHelloHash(); }
getHelloHash(e) ==
    /\ ~crashed
    /\ \E r \in Indeterminate :
          ev' = [Called("getHelloHash", e) EXCEPT
                    !.queueRet = ZrtpQueue_getHelloHash(e), !.userRet = r]
    /\ crashed' \in BOOLEAN
    /\ UNCHANGED <<sess, store, conf, net, notes, track, tampers>>

\* virtual std::string getSasData() { zrtpQueue->getSasData(); }
getSasData(e) ==
    /\ ~crashed
    /\ \E r \in Indeterminate :
          ev' = [Called("getSasData", e) EXCEPT
                    !.queueRet = ZrtpQueue_getSasData(e), !.userRet = r]
    /\ crashed' \in BOOLEAN
    /\ UNCHANGED <<sess, store, conf, net, notes, track, tampers>>

\* The media path: a packet leaves protected exactly when secure mode is on.
sendMedia(e) ==
    /\ ~crashed
    /\ ev' = [Called("sendMedia", e) EXCEPT
                 !.kind = IF sess[e].secure THEN "srtp" ELSE "clear"]
    /\ UNCHANGED <<sess, store, conf, net, notes, track, tampers>>

HelloHashes == {26, 11}
AlgoSets == {{"S384"}, {"S256"}}
Retained == {0, 5}

InitZrtp ==
    /\ heap = EmptyHeap
    /\ digestOut = NoDigest
    /\ ret = NULL
    /\ op = NoOp
    /\ crashed = FALSE
    /\ hist = [c \in Handles |-> NoHist]
    /\ pc = {} /\ inSegs = <<>> /\ d = <<>>
    /\ sess = [e \in Ends |-> NoSession]
    /\ \E rs \in Retained : store = [e \in Ends |-> [secret |-> rs, verified |-> FALSE]]
    /\ conf \in {c \in [Ends -> [hash : HelloHashes, algos : AlgoSets]] :
                    c[1].hash # c[2].hash /\ c[1].algos = {"S384"}}
    /\ net = {}
    /\ notes = [e \in Ends |-> {}]
    /\ ev = NoEvent
    /\ track = [e \in Ends |-> NoTrack]
    /\ tampers = 0

NextZrtp ==
    \/ \E e \in Ends : startDiscovery(e) /\ UNCHANGED <<hvars, evars>>
    \/ \E e \in Ends : helloTimeout(e) /\ UNCHANGED <<hvars, evars>>
    \/ \E e \in Ends, m \in net : processHello(e, m) /\ UNCHANGED <<hvars, evars>>
    \/ \E e \in Ends, m \in net : processCommit(e, m) /\ UNCHANGED <<hvars, evars>>
    \/ \E e \in Ends, m \in net : processDHPart(e, m) /\ UNCHANGED <<hvars, evars>>
    \/ \E e \in Ends, m \in net : processConfirm(e, m) /\ UNCHANGED <<hvars, evars>>
    \/ \E e \in Ends, m \in net : processGoClear(e, m) /\ UNCHANGED <<hvars, evars>>
    \/ \E e \in Ends, m \in net : processClearAck(e, m) /\ UNCHANGED <<hvars, evars>>
    \/ \E m \in net : Tamper(m) /\ UNCHANGED <<hvars, evars>>
    \/ \E e \in Ends : SASVerified(e) /\ UNCHANGED <<hvars, evars>>
    \/ \E e \in Ends : resetSASVerified(e) /\ UNCHANGED <<hvars, evars>>
    \/ \E e \in Ends : goClearOk(e) /\ UNCHANGED <<hvars, evars>>
    \/ \E e \in Ends : requestGoClear(e) /\ UNCHANGED <<hvars, evars>>
    \/ \E e \in Ends : getHelloHash(e) /\ UNCHANGED <<heap, digestOut, ret, op, hist, evars>>
    \/ \E e \in Ends : getSasData(e) /\ UNCHANGED <<heap, digestOut, ret, op, hist, evars>>
    \/ \E e \in Ends : sendMedia(e) /\ UNCHANGED <<hvars, evars>>

SpecZrtp == InitZrtp /\ [][NextZrtp]_vars

\* ------------------------------------------------ the context API in use
\* Callers pass a handle they hold (a live context) or a null handle.
Callable == Live(heap) \cup {NULL}

Segments == SeqsUpTo(Buffers, MaxSeg)
\* What the reads past the end of dataLength return: any one length.
Garbage == {[i \in 1..MaxSeg |-> g] : g \in 0..MaxLen}
NoGarbage == [i \in 1..MaxSeg |-> 0]

\* dataLength[i] never exceeds the buffer data[i] points to.
FitsBuffers(data, dataLength) ==
    \A i \in 1..Min(Len(data), Len(dataLength)) : dataLength[i] <= Len(data[i])

GarbageDigests == {[data |-> HashFinal(HashCreate), size |-> 0]}

CallOp(n, h) == [NoOp EXCEPT !.name = n, !.h = h]

\* A call that dereferences a null handle: the process may die, or go on
\* with the digest buffer in an arbitrary condition.
NullDeref(n) ==
    /\ op' = [CallOp(n, NULL) EXCEPT !.ub = "nullDeref"]
    /\ crashed' \in BOOLEAN
    /\ digestOut' \in IF n \in {"finalize", "close"}
                      THEN {NoDigest} \cup GarbageDigests ELSE {NoDigest}
    /\ UNCHANGED <<heap, ret, hist>>

Absorbed(hs, bytes) == [hs EXCEPT !.pending = @ \o bytes]

Room(h, n) == Len(hist[h].pending) + n <= MaxAbsorb

Create ==
    /\ ~crashed /\ Free(heap) # {}
    /\ LET r == createSkein384Context(heap)
       IN  /\ heap' = r.heap
           /\ ret' = r.ret
           /\ op' = CallOp("create", r.ret)
           /\ hist' = [hist EXCEPT ![r.ret] = NoHist]
    /\ digestOut' = NoDigest
    /\ UNCHANGED crashed

Initialize(h) ==
    /\ ~crashed
    /\ heap' = initializeSkein384Context(heap, h)
    /\ ret' = h
    /\ op' = CallOp("initialize", h)
    /\ hist' = IF h = NULL THEN hist
               ELSE [hist EXCEPT ![h] = [NoHist EXCEPT !.inited =
                        IF hist[h].pending = <<>> THEN "clean" ELSE "dirty"]]
    /\ digestOut' = NoDigest
    /\ UNCHANGED crashed

Update(h, data, dataLength) ==
    /\ ~crashed
    /\ IF h = NULL THEN NullDeref("update")
       ELSE /\ Room(h, dataLength)
            /\ heap' = skein384Ctx(heap, h, data, dataLength)
            /\ op' = CallOp("update", h)
            /\ hist' = [hist EXCEPT ![h] = Absorbed(@, Take(data, dataLength))]
            /\ digestOut' = NoDigest
            /\ UNCHANGED <<ret, crashed>>

UpdateVec(h, data, dataLength, garbage) ==
    /\ ~crashed
    /\ FitsBuffers(data, dataLength)
    /\ IF h = NULL /\ data # <<>> THEN NullDeref("updateVec")
       ELSE /\ h # NULL => Room(h, SumLen(data))
            /\ heap' = IF h = NULL THEN heap
                       ELSE skein384CtxVec(heap, h, data, dataLength, garbage)
            /\ op' = [CallOp("updateVec", h) EXCEPT
                        !.ub = IF Len(dataLength) < Len(data) THEN "oobRead" ELSE "none",
                        !.idx = Len(data), !.lenSize = Len(dataLength)]
            /\ hist' = IF h = NULL THEN hist
                       ELSE [hist EXCEPT ![h] =
                               Absorbed(@, LoopBytes(data, dataLength, 1, garbage))]
            /\ crashed' \in IF Len(dataLength) < Len(data) THEN BOOLEAN ELSE {FALSE}
            /\ digestOut' = NoDigest
            /\ UNCHANGED ret

Finalize(h) ==
    /\ ~crashed
    /\ IF h = NULL THEN NullDeref("finalize")
       ELSE LET r == finalizeSkein384Context(heap, digestOut, h)
            IN  /\ heap' = r.heap
                /\ digestOut' = r.digestOut
                /\ op' = [CallOp("finalize", h) EXCEPT !.data = hist[h].pending,
                                                       !.inited = hist[h].inited]
                /\ hist' = [hist EXCEPT ![h] = NoHist]
                /\ UNCHANGED <<ret, crashed>>

Close(h) ==
    /\ ~crashed
    /\ IF h = NULL THEN NullDeref("close")
       ELSE LET r == closeSkein384Context(heap, digestOut, h)
            IN  /\ heap' = r.heap
                /\ digestOut' = r.digestOut
                /\ op' = [CallOp("close", h) EXCEPT !.data = hist[h].pending]
                /\ hist' = [hist EXCEPT ![h] = NoHist]
                /\ UNCHANGED <<ret, crashed>>

GarbageFor(data, dataLength) ==
    IF Len(dataLength) < Len(data) THEN Garbage ELSE {NoGarbage}

\* With a null handle the call depends on its vectors only through data
\* being empty or not; with a live one the segments must fit the model's cap.
SegmentsWithin == [n \in 0..MaxAbsorb |-> {dt \in Segments : SumLen(dt) <= n}]

VecInputs(h) ==
    IF h = NULL THEN {dt \in Segments : Len(dt) <= 1 /\ SumLen(dt) = 0}
    ELSE SegmentsWithin[MaxAbsorb - Len(hist[h].pending)]

\* The caller passes each segment's length, for some or all of the segments
\* (or for more of them than there are).
VecLengths(h, data) ==
    IF h = NULL THEN {<<>>}
    ELSE {[i \in 1..k |-> IF i <= Len(data) THEN Len(data[i]) ELSE 0] : k \in 0..MaxSeg}

InitCtx ==
    /\ heap = EmptyHeap
    /\ digestOut = NoDigest
    /\ ret = NULL
    /\ op = NoOp
    /\ crashed = FALSE
    /\ hist = [c \in Handles |-> NoHist]
    /\ pc = {} /\ inSegs = <<>> /\ d = <<>>
    /\ ZrtpIdle

NextCtx ==
    \/ Create /\ UNCHANGED <<evars, zvars>>
    \/ \E h \in Callable : Initialize(h) /\ UNCHANGED <<evars, zvars>>
    \/ \E h \in Callable, data \in Buffers : \E n \in 0..Len(data) :
           Update(h, data, n) /\ UNCHANGED <<evars, zvars>>
    \/ \E h \in Callable : \E data \in VecInputs(h) : \E dl \in VecLengths(h, data) :
           \E g \in GarbageFor(data, dl) : UpdateVec(h, data, dl, g) /\ UNCHANGED <<evars, zvars>>
    \/ \E h \in Callable : Finalize(h) /\ UNCHANGED <<evars, zvars>>
    \/ \E h \in Callable : Close(h) /\ UNCHANGED <<evars, zvars>>

SpecCtx == InitCtx /\ [][NextCtx]_vars


\* ------------------------------------- one-shot and context API side by side
\* The same segments are hashed five ways; d records what each way wrote
\* (the one-shot functions write the digest bytes only, to a plain buffer).
Runs == {"vec", "buf", "ctxVec", "ctxEach", "ctxCat"}

RECURSIVE Lengths(_)
Lengths(ss) == IF ss = <<>> THEN <<>> ELSE <<Len(Head(ss))>> \o Lengths(Tail(ss))

RECURSIVE UpdateEach(_, _, _)
UpdateEach(hp, ctx, ss) ==
    IF ss = <<>> THEN hp
    ELSE UpdateEach(skein384Ctx(hp, ctx, Head(ss), Len(Head(ss))), ctx, Tail(ss))

\* create, feed (by one of the update forms), finalize, close
CtxRun(how) ==
    LET c  == createSkein384Context(heap)
        fed == CASE how = "ctxVec"  -> skein384CtxVec(c.heap, c.ret, inSegs, Lengths(inSegs), NoGarbage)
                 [] how = "ctxEach" -> UpdateEach(c.heap, c.ret, inSegs)
                 [] how = "ctxCat"  -> skein384Ctx(c.heap, c.ret, Concat(inSegs), SumLen(inSegs))
        f  == finalizeSkein384Context(fed, digestOut, c.ret)
        z  == closeSkein384Context(f.heap, f.digestOut, c.ret)
    IN  /\ how \notin pc
        /\ pc' = pc \cup {how}
        /\ d' = [d EXCEPT ![how] = f.digestOut]
        /\ heap' = z.heap
        /\ digestOut' = z.digestOut
        /\ ret' = c.ret
        /\ UNCHANGED <<op, crashed, hist, inSegs, zvars>>

RunCtxVec == CtxRun("ctxVec")
RunCtxEach == CtxRun("ctxEach")
RunCtxCat == CtxRun("ctxCat")

RunOneShotVec ==
    /\ "vec" \notin pc
    /\ pc' = pc \cup {"vec"}
    /\ digestOut' = [NoDigest EXCEPT !.data = skein384Vec(inSegs, Lengths(inSegs), NoGarbage)]
    /\ d' = [d EXCEPT !["vec"] = digestOut']
    /\ UNCHANGED <<heap, ret, op, crashed, hist, inSegs, zvars>>

RunOneShotBuf ==
    /\ "buf" \notin pc
    /\ pc' = pc \cup {"buf"}
    /\ digestOut' = [NoDigest EXCEPT !.data = skein384(Concat(inSegs), SumLen(inSegs))]
    /\ d' = [d EXCEPT !["buf"] = digestOut']
    /\ UNCHANGED <<heap, ret, op, crashed, hist, inSegs, zvars>>

InitEquiv ==
    /\ heap = EmptyHeap
    /\ digestOut = NoDigest
    /\ ret = NULL
    /\ op = NoOp
    /\ crashed = FALSE
    /\ hist = [c \in Handles |-> NoHist]
    /\ pc = {}
    /\ inSegs \in Segments
    /\ d = [r \in Runs |-> NoDigest]
    /\ ZrtpIdle

NextEquiv ==
    \/ RunOneShotVec
    \/ RunOneShotBuf
    \/ RunCtxVec
    \/ RunCtxEach
    \/ RunCtxCat

SpecEquiv == InitEquiv /\ [][NextEquiv]_vars

\* ------------------------------------------------------------- claims

\* C1: incremental hashing equivalence. For every pair of byte strings a, b
\* (empty ones included), a context fed skein384Ctx(a) then skein384Ctx(b)
\* and finalized gives the digest of a context fed skein384Ctx(a \o b) and
\* finalized.
C1_IncrementalEquivalence ==
    (Len(inSegs) = 2 /\ {"ctxEach", "ctxCat"} \subseteq pc) => d["ctxEach"] = d["ctxCat"]

C1_Witness ==
    /\ Len(inSegs) = 2 /\ inSegs[1] # <<>> /\ inSegs[2] # <<>>
    /\ {"ctxEach", "ctxCat"} \subseteq pc
    /\ d["ctxEach"].size = SHA384_DIGEST_SIZE

\* C8: the one-shot functions and the context API compute the same function:
\* for segments with matching lengths, skein384(vector), skein384(concat),
\* and create + skein384Ctx (multi-segment, or one call per segment) +
\* finalize all give the same digest.
C8_OneShotEqualsContext ==
    \A r1, r2 \in {"vec", "buf", "ctxVec", "ctxEach"} :
        (r1 \in pc /\ r2 \in pc) => d[r1].data = d[r2].data

C8_Witness ==
    /\ {"vec", "buf", "ctxVec", "ctxEach"} \subseteq pc
    /\ Len(inSegs) = 2 /\ inSegs[1] # <<>> /\ inSegs[2] # <<>>
    /\ d["vec"].data # HashFinal(HashCreate)

\* The digest of a freshly created context fed the given bytes.
FreshDigest(bytes) ==
    LET c == createSkein384Context(EmptyHeap)
        u == skein384Ctx(c.heap, c.ret, bytes, Len(bytes))
    IN  finalizeSkein384Context(u, NoDigest, c.ret).digestOut

\* C7: re-initialization resets a context. After any updates and finalizes,
\* initializeSkein384Context returns the handle it was given with the hash
\* state cleared, and the next finalize yields the digest a freshly created
\* context gives for the updates made after that initialize.
C7_ReinitResets ==
    /\ op.name = "initialize" =>
           /\ ret = op.h
           /\ op.h # NULL => heap[op.h].hash = HashCreate
    /\ (op.name = "finalize" /\ op.ub = "none" /\ op.inited # "no") =>
           digestOut = FreshDigest(op.data)

C7_Witness ==
    /\ op.name = "finalize" /\ op.inited = "dirty" /\ op.data # <<>>
    /\ digestOut = FreshDigest(op.data)

\* C9: closeSkein384Context on a live context, whatever its lifecycle state,
\* writes the digest of the data absorbed since the last reset (create,
\* initialize or finalize), sets the size to SHA384_DIGEST_SIZE and releases
\* the context, which can then no longer be operated on.
C9_CloseFinalizesAndReleases ==
    (op.name = "close" /\ op.ub = "none") =>
        /\ digestOut = [data |-> HashFinal(HashUpdate(HashCreate, op.data)),
                        size |-> SHA384_DIGEST_SIZE]
        /\ heap[op.h].state = "released"
        /\ op.h \notin Callable

C9_Witness ==
    /\ op.name = "close" /\ op.data # <<>>
    /\ heap[op.h].state = "released"
    /\ digestOut.size = SHA384_DIGEST_SIZE

\* C6: every context operation called with a null handle returns without
\* dereferencing it.
C6_NullHandleRejected ==
    (op.h = NULL /\ op.name \in {"initialize", "update", "updateVec", "finalize", "close"})
        => op.ub # "nullDeref"

\* C10: the multi-segment operations read dataLength only at indices below
\* dataLength.size(), also when the two vectors differ in length.
C10_LengthReadsInBounds ==
    op.name = "updateVec" => op.idx <= op.lenSize


\* C2: getHelloHash() and getSasData() return to the caller the string the
\* ZrtpQueue method produced ("0" when ZRTP was not started).
C2_GettersReturnQueueString ==
    ev.name \in {"getHelloHash", "getSasData"} => ev.userRet = ev.queueRet

C4_TamperedConfirmFails ==
    \A e \in Ends :
        track[e].badConfirm =>
            /\ sess[e].state = "Failed"
            /\ sess[e].err = "ConfirmAuthFailed"
            /\ "zrtpNegotiationFailed" \in notes[e]
            /\ "secureOn" \notin notes[e]
            /\ ~sess[e].secure

C4_Witness ==
    \E e \in Ends :
        /\ track[e].badConfirm
        /\ sess[e].err = "ConfirmAuthFailed"
        /\ sess[Peer(e)].state \in {"Confirmed", "SecureOn"}

\* C5: in every protocol state SASVerified() sets and resetSASVerified()
\* clears the verified flag of the caller's retained secret, and neither
\* changes anything else of the retained secret or of the session (state,
\* secure-mode flag, SAS, session keys).
C5_SasVerifiedFrame ==
    [][ev'.name \in {"SASVerified", "resetSASVerified"} =>
           /\ store' = [store EXCEPT ![ev'.e].verified = (ev'.name = "SASVerified")]
           /\ sess' = sess]_vars

C5_Witness ==
    /\ ev.name = "SASVerified"
    /\ store[ev.e].verified
    /\ sess[ev.e].state = "SecureOn" /\ sess[ev.e].keys # 0 /\ sess[ev.e].sas # 0

====
